---- MODULE Spec2Model ----
(***************************************************************************)
(* Client & Invoice Manager: the storage repository (src/database.py), the *)
(* entity validation (src/models.py) and the operation layer               *)
(* (src/server.py), as a state machine over the two JSON files.            *)
(*                                                                         *)
(* Text is a sequence of one-character strings, so that lower-casing and   *)
(* substring search are computed, not assumed.  Python floats are modelled *)
(* by integers (every quantity and price drawn is integral).               *)
(***************************************************************************)
EXTENDS Integers, Sequences, FiniteSets, TLC

VARIABLES
    dirExists,      \* whether DATA_DIR exists
    clientsFile,    \* content of data/clients.json
    invoicesFile,   \* content of data/invoices.json
    clock,          \* the wall clock read by datetime.now()
    call,           \* the operation invoked last, with its arguments
    result,         \* what that operation returned
    issued,         \* the client dicts returned by successful add_client calls, in order
    mem,            \* repository level: the state a caller holds after load / passes to save
    pc,             \* concurrent callers: where each caller is in add_client
    local,          \* concurrent callers: each caller's local variables
    lastWriter,     \* concurrent callers: who wrote clients.json last
    start           \* the two files as they were before the first call

vars == <<dirExists, clientsFile, invoicesFile, clock, call, result, issued, mem,
          pc, local, lastWriter, start>>

-----------------------------------------------------------------------------
(* Bounds *)

MaxClients == 2
MaxInvoices == 2
MaxClock == 1
MaxStoreRecs == 2

-----------------------------------------------------------------------------
(* Text *)

UpperToLower ==
    [A |-> "a", B |-> "b", C |-> "c", D |-> "d", E |-> "e", F |-> "f", G |-> "g",
     H |-> "h", I |-> "i", J |-> "j", K |-> "k", L |-> "l", M |-> "m", N |-> "n",
     O |-> "o", P |-> "p", Q |-> "q", R |-> "r", S |-> "s", T |-> "t", U |-> "u",
     V |-> "v", W |-> "w", X |-> "x", Y |-> "y", Z |-> "z"]

\* str.lower(), character by character
Lower(s) ==
    [i \in 1..Len(s) |-> IF s[i] \in DOMAIN UpperToLower THEN UpperToLower[s[i]] ELSE s[i]]

\* `needle in hay` for Python strings
Contains(hay, needle) ==
    \E k \in 0..(Len(hay) - Len(needle)) :
        \A i \in 1..Len(needle) : hay[k + i] = needle[i]

\* Optional[str]: None, or a string
None == [some |-> FALSE, s |-> <<>>]
Some(s) == [some |-> TRUE, s |-> s]

\* truthiness of an Optional[str]: None and "" are falsy
Truthy(o) == o.some /\ Len(o.s) > 0

-----------------------------------------------------------------------------
(* Python scalars and their JSON tokens *)

Py(t, v) == [t |-> t, v |-> v]
PyInt(n) == Py("int", n)
PyMissing == Py("missing", 0)    \* the key is not in the dict

\* isinstance(x, int): bool is a subclass of int
IsInstanceInt(x) == x.t \in {"int", "bool"}
IsNumber(x) == x.t \in {"int", "bool", "float"}

\* x == y
PyEq(x, y) ==
    IF IsNumber(x) /\ IsNumber(y) THEN x.v = y.v ELSE x.t = y.t /\ x.v = y.v

\* x + 1 for a number x
PyAdd1(x) == IF x.t = "float" THEN Py("float", x.v + 1) ELSE Py("int", x.v + 1)

Tok(j, v) == [j |-> j, v |-> v]

\* json.dump of a scalar
ToJson(x) ==
    CASE x.t = "int" -> Tok("integer", x.v)
      [] x.t = "float" -> Tok("real", x.v)
      [] x.t = "bool" -> IF x.v = 1 THEN Tok("true", 0) ELSE Tok("false", 0)
      [] x.t = "str" -> Tok("string", x.v)
      [] x.t = "none" -> Tok("null", 0)
      [] OTHER -> Tok("absent", 0)

\* json.load of a scalar
FromJson(k) ==
    CASE k.j = "integer" -> Py("int", k.v)
      [] k.j = "real" -> Py("float", k.v)
      [] k.j = "true" -> Py("bool", 1)
      [] k.j = "false" -> Py("bool", 0)
      [] k.j = "string" -> Py("str", k.v)
      [] k.j = "null" -> Py("none", 0)
      [] OTHER -> PyMissing

\* a list element: a dict (shape "dict") or something that is not a mapping
RecToJson(r) == [r EXCEPT !.id = ToJson(r.id)]
RecFromJson(r) == [r EXCEPT !.id = FromJson(r.id)]

-----------------------------------------------------------------------------
(* Storage repository: src/database.py *)

NoRecs == [k |-> "absent", items |-> <<>>]

\* a file that does not exist
AbsentFile == [kind |-> "absent", recs |-> NoRecs, next |-> Tok("absent", 0)]

\* a file whose content json.load rejects (truncated, empty, not JSON)
UnparseableFile == [kind |-> "unparseable", recs |-> NoRecs, next |-> Tok("absent", 0)]

\* a file just opened for writing: open(path, "w") has truncated it
EmptyFile == [kind |-> "empty", recs |-> NoRecs, next |-> Tok("absent", 0)]

\* _get_default_clients / _get_default_invoices
DefaultState == [exc |-> "none", records |-> <<>>, next_id |-> PyInt(1)]

\* c.get("id", 0)
GetId(r) == IF r.id.t = "missing" THEN PyInt(0) ELSE r.id

\* max(ids): the first maximal element of a non-empty sequence of numbers
RECURSIVE MaxOf(_)
MaxOf(ids) ==
    IF Len(ids) = 1 THEN ids[1]
    ELSE LET m == MaxOf(SubSeq(ids, 1, Len(ids) - 1))
         IN IF ids[Len(ids)].v > m.v THEN ids[Len(ids)] ELSE m

\* max((c.get("id", 0) for c in records), default=0) + 1, or the exception it raises:
\* .get on an element that is not a mapping, an ordering or an addition on ids that
\* are not numbers
RecalcNextId(records) ==
    IF \E i \in 1..Len(records) : records[i].shape # "dict"
        THEN [exc |-> "AttributeError", next_id |-> PyInt(0)]
    ELSE IF \E i \in 1..Len(records) : ~IsNumber(GetId(records[i]))
        THEN [exc |-> "TypeError", next_id |-> PyInt(0)]
    ELSE IF Len(records) = 0
        THEN [exc |-> "none", next_id |-> PyInt(1)]
    ELSE [exc |-> "none",
          next_id |-> PyAdd1(MaxOf([i \in 1..Len(records) |-> GetId(records[i])]))]

\* the body of the try block of load_clients / load_invoices
LoadTry(file) ==
    CASE file.kind = "unreadable" -> [DefaultState EXCEPT !.exc = "OSError"]
      [] file.kind \in {"unparseable", "empty"} ->
            [DefaultState EXCEPT !.exc = "JSONDecodeError"]
      [] file.kind = "notdict" -> DefaultState
      [] OTHER ->
            IF file.recs.k # "list" THEN DefaultState
            ELSE LET records == [i \in 1..Len(file.recs.items) |->
                                    RecFromJson(file.recs.items[i])]
                     next_id == FromJson(file.next)
                 IN IF ~IsInstanceInt(next_id)
                    THEN LET r == RecalcNextId(records)
                         IN [exc |-> r.exc, records |-> records, next_id |-> r.next_id]
                    ELSE [exc |-> "none", records |-> records, next_id |-> next_id]

\* load without its two except clauses
LoadUnguarded(file) ==
    IF file.kind = "absent" THEN DefaultState ELSE LoadTry(file)

\* load_clients / load_invoices: the default state when the file does not exist,
\* and when the try block raises (except JSONDecodeError, except Exception)
Load(file) ==
    IF file.kind = "absent" THEN DefaultState
    ELSE LET r == LoadTry(file)
         IN IF r.exc = "JSONDecodeError" THEN DefaultState
            ELSE IF r.exc # "none" THEN DefaultState
            ELSE r

\* a save that writes the record list alone, without the mapping around it
DumpRecordsOnly(data) ==
    [kind |-> "notdict",
     recs |-> [k |-> "list",
               items |-> [i \in 1..Len(data.records) |-> RecToJson(data.records[i])]],
     next |-> Tok("absent", 0)]

\* what open(file, "w") + json.dump(data, f) leaves in the file
Dump(data) ==
    [kind |-> "dict",
     recs |-> [k |-> "list",
               items |-> [i \in 1..Len(data.records) |-> RecToJson(data.records[i])]],
     next |-> ToJson(data.next_id)]

\* the scan of get_client_by_id / get_invoice_by_id over loaded records:
\* the first record whose id equals `id`, None, or the exception of record["id"]
RECURSIVE FindFrom(_, _, _)
FindFrom(records, id, i) ==
    IF i > Len(records) THEN [exc |-> "none", found |-> FALSE, at |-> 0]
    ELSE IF records[i].shape # "dict" THEN [exc |-> "TypeError", found |-> FALSE, at |-> i]
    ELSE IF records[i].id.t = "missing" THEN [exc |-> "KeyError", found |-> FALSE, at |-> i]
    ELSE IF PyEq(records[i].id, id) THEN [exc |-> "none", found |-> TRUE, at |-> i]
    ELSE FindFrom(records, id, i + 1)

FindById(records, id) == FindFrom(records, id, 1)

-----------------------------------------------------------------------------
(* Entity model: src/models.py *)

AtSigns(e) == {i \in 1..Len(e) : e[i] = "@"}

\* EmailStr: one "@", a local part, a domain with an inner dot
IsValidEmail(e) ==
    /\ Cardinality(AtSigns(e)) = 1
    /\ LET at == CHOOSE i \in AtSigns(e) : TRUE
       IN /\ at > 1
          /\ \E d \in (at + 2)..(Len(e) - 1) : e[d] = "."
          /\ e[at + 1] # "."

\* EmailStr keeps the local part and lower-cases the domain
NormalizeEmail(e) ==
    LET at == CHOOSE i \in AtSigns(e) : TRUE
    IN SubSeq(e, 1, at) \o Lower(SubSeq(e, at + 1, Len(e)))

\* Client(...): the fields that fail validation, in field order
ClientErrors(inp) ==
    (IF Len(inp.name) < 1 THEN <<"name">> ELSE <<>>)
    \o (IF ~IsValidEmail(inp.email) THEN <<"email">> ELSE <<>>)

\* InvoiceItem(...): the fields that fail validation, in field order
ItemErrors(item) ==
    (IF Len(item.description.v) < 1 THEN <<"description">> ELSE <<>>)
    \o (IF ~(item.quantity.v > 0) THEN <<"quantity">> ELSE <<>>)
    \o (IF ~(item.unit_price.v >= 0) THEN <<"unit_price">> ELSE <<>>)

\* InvoiceItem.model_dump()
ItemDump(item) ==
    [description |-> item.description.v,
     quantity |-> item.quantity.v,
     unit_price |-> item.unit_price.v]

\* a list element that carries nothing but an id, for stored files written by hand
BlankClient(shape, id) ==
    [shape |-> shape, id |-> id, name |-> <<>>, email |-> <<>>, phone |-> None,
     address |-> None, company |-> None, created_at |-> 0, updated_at |-> 0]

BlankInvoice(shape, id) ==
    [shape |-> shape, id |-> id, client_id |-> 0, client_name |-> <<>>, items |-> <<>>,
     status |-> <<>>, notes |-> None, created_at |-> 0, due_date |-> None, total |-> 0]

-----------------------------------------------------------------------------
(* Operation layer: src/server.py.  Each operation is an operator from its *)
(* arguments and the files to its response and the files it leaves.        *)

RecentLimit == 5

ValidStatuses ==
    {<<"d", "r", "a", "f", "t">>, <<"s", "e", "n", "t">>, <<"p", "a", "i", "d">>,
     <<"o", "v", "e", "r", "d", "u", "e">>}

Paid == <<"p", "a", "i", "d">>
\* a pending count that leaves the overdue invoices out
PendingSentOnly == {<<"s", "e", "n", "t">>}

PendingStatuses == {<<"s", "e", "n", "t">>, <<"o", "v", "e", "r", "d", "u", "e">>}
Draft == <<"d", "r", "a", "f", "t">>

\* status.lower() in valid_statuses
IsValidStatus(status) == Lower(status) \in ValidStatuses

\* {"success": False, "error": ...}: the message's kind and what it names
Failure(kind, n, fields) ==
    [exc |-> "none", success |-> FALSE,
     error |-> [kind |-> kind, n |-> n, fields |-> fields]]

\* the handler does not return: an exception leaves it
Raised(exc) ==
    [exc |-> exc, success |-> FALSE,
     error |-> [kind |-> "exception", n |-> 0, fields |-> <<>>]]

AllDicts(records) == \A i \in 1..Len(records) : records[i].shape = "dict"

\* the append without the increment of next_id
AppendRecordNoBump(data, rec) == [data EXCEPT !.records = Append(@, rec)]

\* data[...].append(record); data["next_id"] += 1
AppendRecord(data, rec) ==
    [data EXCEPT !.records = Append(@, rec), !.next_id = PyAdd1(@)]

\* client.model_dump() with id and the two timestamps set
ClientDict(inp, id, t1, t2) ==
    [shape |-> "dict", id |-> id, name |-> inp.name, email |-> NormalizeEmail(inp.email),
     phone |-> inp.phone, address |-> inp.address, company |-> inp.company,
     created_at |-> t1, updated_at |-> t2]

\* add_client; t1 and t2 are the two readings of datetime.now()
AddClient(inp, cfile, t1, t2) ==
    LET errs == ClientErrors(inp)
    IN IF errs # <<>>
       THEN [resp |-> Failure("validation", 0, errs), cfile |-> cfile, loads |-> FALSE]
       ELSE LET data == Load(cfile)
                client_dict == ClientDict(inp, data.next_id, t1, t2)
            IN [resp |-> [exc |-> "none", success |-> TRUE, client |-> client_dict],
                cfile |-> Dump(AppendRecord(data, client_dict)),
                loads |-> TRUE]

\* a match whose company filter lets the clients without a company through
ClientMatchesNoCompanyPasses(client, query, email, company) ==
    /\ Truthy(query) => Contains(Lower(client.name), Lower(query.s))
    /\ Truthy(email) => Contains(Lower(client.email), Lower(email.s))
    /\ (Truthy(company) /\ Truthy(client.company)) =>
          Contains(Lower(client.company.s), Lower(company.s))

\* one client against the filters of search_clients
ClientMatches(client, query, email, company) ==
    /\ Truthy(query) => Contains(Lower(client.name), Lower(query.s))
    /\ Truthy(email) => Contains(Lower(client.email), Lower(email.s))
    /\ Truthy(company) =>
          /\ Truthy(client.company)
          /\ Contains(Lower(client.company.s), Lower(company.s))

RECURSIVE Filter(_, _, _)
\* the records of `records` whose index is in `keep`, in order
Filter(records, keep, i) ==
    IF i > Len(records) THEN <<>>
    ELSE (IF i \in keep THEN <<records[i]>> ELSE <<>>) \o Filter(records, keep, i + 1)

\* search_clients
SearchClients(query, email, company, cfile) ==
    LET clients == Load(cfile).records
    IN IF ~AllDicts(clients) THEN Raised("AttributeError")
       ELSE LET results == Filter(clients,
                                  {i \in 1..Len(clients) :
                                      ClientMatches(clients[i], query, email, company)}, 1)
            IN [exc |-> "none", count |-> Len(results), clients |-> results]

\* get_client
GetClient(client_id, cfile) ==
    LET f == FindById(Load(cfile).records, PyInt(client_id))
    IN IF f.exc # "none" THEN Raised(f.exc)
       ELSE IF f.found
            THEN [exc |-> "none", success |-> TRUE, client |-> Load(cfile).records[f.at]]
            ELSE Failure("client_not_found", client_id, <<>>)

\* list_all_clients
ListAllClients(cfile) ==
    LET data == Load(cfile)
    IN [exc |-> "none", count |-> Len(data.records), clients |-> data.records]

RequiredFields == <<"description", "quantity", "unit_price">>

\* [f for f in required_fields if f not in item]
MissingFields(item) ==
    (IF ~item.description.has THEN <<"description">> ELSE <<>>)
    \o (IF ~item.quantity.has THEN <<"quantity">> ELSE <<>>)
    \o (IF ~item.unit_price.has THEN <<"unit_price">> ELSE <<>>)

RECURSIVE CheckItemsZeroBased(_, _)
\* the loop naming the failing item by its 0-based index
CheckItemsZeroBased(items, i) ==
    IF i > Len(items) THEN [ok |-> TRUE, resp |-> Failure("none", 0, <<>>)]
    ELSE IF MissingFields(items[i]) # <<>>
        THEN [ok |-> FALSE,
              resp |-> Failure("item_missing_fields", i - 1, MissingFields(items[i]))]
    ELSE IF ItemErrors(items[i]) # <<>>
        THEN [ok |-> FALSE, resp |-> Failure("item_validation", i - 1, ItemErrors(items[i]))]
    ELSE CheckItemsZeroBased(items, i + 1)

RECURSIVE CheckItems(_, _)
\* the loop over enumerate(items): the first failure, from item i on
CheckItems(items, i) ==
    IF i > Len(items) THEN [ok |-> TRUE, resp |-> Failure("none", 0, <<>>)]
    ELSE IF MissingFields(items[i]) # <<>>
        THEN [ok |-> FALSE, resp |-> Failure("item_missing_fields", i, MissingFields(items[i]))]
    ELSE IF ItemErrors(items[i]) # <<>>
        THEN [ok |-> FALSE, resp |-> Failure("item_validation", i, ItemErrors(items[i]))]
    ELSE CheckItems(items, i + 1)

RECURSIVE SumUnitPrices(_)
\* a total that leaves the quantities out
SumUnitPrices(invoice_items) ==
    IF Len(invoice_items) = 0 THEN 0
    ELSE SumUnitPrices(SubSeq(invoice_items, 1, Len(invoice_items) - 1))
         + invoice_items[Len(invoice_items)].unit_price

RECURSIVE SumTotals(_)
\* sum(item.quantity * item.unit_price for item in invoice_items)
SumTotals(invoice_items) ==
    IF Len(invoice_items) = 0 THEN 0
    ELSE SumTotals(SubSeq(invoice_items, 1, Len(invoice_items) - 1))
         + invoice_items[Len(invoice_items)].quantity
           * invoice_items[Len(invoice_items)].unit_price

\* the checks with the status checked before the client
CreateChecksStatusFirst(args, cfile) ==
    LET f == FindById(Load(cfile).records, PyInt(args.client_id))
    IN IF ~IsValidStatus(args.status)
            THEN [ok |-> FALSE, resp |-> Failure("invalid_status", 0, <<>>)]
       ELSE IF f.exc # "none" THEN [ok |-> FALSE, resp |-> Raised(f.exc)]
       ELSE IF ~f.found
            THEN [ok |-> FALSE, resp |-> Failure("client_not_found", args.client_id, <<>>)]
       ELSE IF Len(args.items) = 0
            THEN [ok |-> FALSE, resp |-> Failure("no_items", 0, <<>>)]
       ELSE CheckItems(args.items, 1)

\* the checks of create_invoice that precede the load of the invoices
CreateChecks(args, cfile) ==
    LET f == FindById(Load(cfile).records, PyInt(args.client_id))
    IN IF f.exc # "none" THEN [ok |-> FALSE, resp |-> Raised(f.exc)]
       ELSE IF ~f.found
            THEN [ok |-> FALSE, resp |-> Failure("client_not_found", args.client_id, <<>>)]
       ELSE IF ~IsValidStatus(args.status)
            THEN [ok |-> FALSE, resp |-> Failure("invalid_status", 0, <<>>)]
       ELSE IF Len(args.items) = 0
            THEN [ok |-> FALSE, resp |-> Failure("no_items", 0, <<>>)]
       ELSE CheckItems(args.items, 1)

\* an invoice_dict that stores the client's name lower-cased
InvoiceDictLowerName(args, client, id, t) ==
    LET invoice_items == [i \in 1..Len(args.items) |-> ItemDump(args.items[i])]
    IN [shape |-> "dict", id |-> id, client_id |-> args.client_id,
        client_name |-> Lower(client.name), items |-> invoice_items,
        status |-> Lower(args.status), notes |-> args.notes, created_at |-> t,
        due_date |-> args.due_date, total |-> SumTotals(invoice_items)]

\* invoice_dict
InvoiceDict(args, client, id, t) ==
    LET invoice_items == [i \in 1..Len(args.items) |-> ItemDump(args.items[i])]
    IN [shape |-> "dict", id |-> id, client_id |-> args.client_id,
        client_name |-> client.name, items |-> invoice_items,
        status |-> Lower(args.status), notes |-> args.notes, created_at |-> t,
        due_date |-> args.due_date, total |-> SumTotals(invoice_items)]

\* a create_invoice that takes an id from the counter before it checks the items
CreateInvoiceTakesIdFirst(args, cfile, ifile, t) ==
    LET chk == CreateChecks(args, cfile)
    IN IF ~chk.ok
       THEN [resp |-> chk.resp,
             ifile |-> IF chk.resp.error.kind \in {"item_missing_fields", "item_validation"}
                       THEN Dump([Load(ifile) EXCEPT !.next_id = PyAdd1(@)])
                       ELSE ifile,
             loads |-> FALSE]
       ELSE LET clients == Load(cfile).records
                client == clients[FindById(clients, PyInt(args.client_id)).at]
                data == Load(ifile)
                invoice_dict == InvoiceDict(args, client, data.next_id, t)
            IN [resp |-> [exc |-> "none", success |-> TRUE, invoice |-> invoice_dict],
                ifile |-> Dump(AppendRecord(data, invoice_dict)),
                loads |-> TRUE]

\* create_invoice; t is the reading of datetime.now()
CreateInvoice(args, cfile, ifile, t) ==
    LET chk == CreateChecks(args, cfile)
    IN IF ~chk.ok THEN [resp |-> chk.resp, ifile |-> ifile, loads |-> FALSE]
       ELSE LET clients == Load(cfile).records
                client == clients[FindById(clients, PyInt(args.client_id)).at]
                data == Load(ifile)
                invoice_dict == InvoiceDict(args, client, data.next_id, t)
            IN [resp |-> [exc |-> "none", success |-> TRUE, invoice |-> invoice_dict],
                ifile |-> Dump(AppendRecord(data, invoice_dict)),
                loads |-> TRUE]

\* a get_invoice that fails when the client of the invoice is not found
GetInvoiceNeedsClient(invoice_id, cfile, ifile) ==
    LET invoices == Load(ifile).records
        f == FindById(invoices, PyInt(invoice_id))
    IN IF f.exc # "none" THEN Raised(f.exc)
       ELSE IF ~f.found THEN Failure("invoice_not_found", invoice_id, <<>>)
       ELSE LET clients == Load(cfile).records
                c == FindById(clients, PyInt(invoices[f.at].client_id))
            IN IF c.exc # "none" THEN Raised(c.exc)
               ELSE IF ~c.found
               THEN Failure("client_not_found", invoices[f.at].client_id, <<>>)
               ELSE [exc |-> "none", success |-> TRUE, invoice |-> invoices[f.at],
                     client |-> <<clients[c.at]>>]

\* get_invoice: the invoice and its client, which may be None (<<>>)
GetInvoice(invoice_id, cfile, ifile) ==
    LET invoices == Load(ifile).records
        f == FindById(invoices, PyInt(invoice_id))
    IN IF f.exc # "none" THEN Raised(f.exc)
       ELSE IF ~f.found THEN Failure("invoice_not_found", invoice_id, <<>>)
       ELSE LET clients == Load(cfile).records
                c == FindById(clients, PyInt(invoices[f.at].client_id))
            IN IF c.exc # "none" THEN Raised(c.exc)
               ELSE [exc |-> "none", success |-> TRUE, invoice |-> invoices[f.at],
                     client |-> IF c.found THEN <<clients[c.at]>> ELSE <<>>]

RECURSIVE SumField(_)
\* sum(inv.get("total", 0) for inv in invoices)
SumField(invoices) ==
    IF Len(invoices) = 0 THEN 0
    ELSE SumField(SubSeq(invoices, 1, Len(invoices) - 1)) + invoices[Len(invoices)].total

\* list_invoices; client_id is None or an int, status None or a string
ListInvoices(client_id, status, ifile) ==
    LET invoices == Load(ifile).records
    IN IF ~AllDicts(invoices) THEN Raised("AttributeError")
       ELSE LET keep == {i \in 1..Len(invoices) :
                            /\ client_id.some => invoices[i].client_id = client_id.v
                            /\ Truthy(status) =>
                                  Lower(invoices[i].status) = Lower(status.s)}
                results == Filter(invoices, keep, 1)
            IN [exc |-> "none", count |-> Len(results),
                total_amount |-> SumField(results), invoices |-> results]

\* a change that keeps the matching invoice alone
UpdateStatusDataOnly(data, at, status) ==
    [data EXCEPT !.records = <<[data.records[at] EXCEPT !.status = Lower(status)]>>]

\* a change that stores the status as it was given
UpdateStatusDataAsGiven(data, at, status) ==
    [data EXCEPT !.records[at].status = status]

\* the in-place change update_invoice_status makes to the loaded state
UpdateStatusData(data, at, status) ==
    [data EXCEPT !.records[at].status = Lower(status)]

\* update_invoice_status without the check of the status
UpdateUnchecked(invoice_id, status, ifile) ==
    LET data == Load(ifile)
        f == FindById(data.records, PyInt(invoice_id))
    IN IF f.exc # "none"
       THEN [resp |-> Raised(f.exc), ifile |-> ifile, loads |-> TRUE]
       ELSE IF ~f.found
       THEN [resp |-> Failure("invoice_not_found", invoice_id, <<>>),
             ifile |-> ifile, loads |-> TRUE]
       ELSE LET changed == UpdateStatusData(data, f.at, status)
            IN [resp |-> [exc |-> "none", success |-> TRUE,
                          invoice |-> changed.records[f.at]],
                ifile |-> Dump(changed), loads |-> TRUE]

\* update_invoice_status
UpdateInvoiceStatus(invoice_id, status, ifile) ==
    IF ~IsValidStatus(status)
    THEN [resp |-> Failure("invalid_status", 0, <<>>), ifile |-> ifile, loads |-> FALSE]
    ELSE LET data == Load(ifile)
             f == FindById(data.records, PyInt(invoice_id))
         IN IF f.exc # "none"
            THEN [resp |-> Raised(f.exc), ifile |-> ifile, loads |-> TRUE]
            ELSE IF ~f.found
            THEN [resp |-> Failure("invoice_not_found", invoice_id, <<>>),
                  ifile |-> ifile, loads |-> TRUE]
            ELSE LET changed == UpdateStatusData(data, f.at, status)
                 IN [resp |-> [exc |-> "none", success |-> TRUE,
                               invoice |-> changed.records[f.at]],
                     ifile |-> Dump(changed), loads |-> TRUE]

\* a revenue that counts the sent invoices too
RevenuePaidOrSent(invoices) ==
    SumField(Filter(invoices,
                    {i \in 1..Len(invoices) :
                        invoices[i].status \in {Paid, <<"s", "e", "n", "t">>}}, 1))

\* sum(inv.get("total", 0) for inv in invoices if inv.get("status") == "paid")
TotalRevenue(invoices) ==
    SumField(Filter(invoices, {i \in 1..Len(invoices) : invoices[i].status = Paid}, 1))

CountStatus(invoices, statuses) ==
    Cardinality({i \in 1..Len(invoices) : invoices[i].status \in statuses})

\* insert x into a sequence sorted by created_at descending, after its equals
InsertDesc(sorted, x) ==
    LET before == {i \in 1..Len(sorted) : sorted[i].created_at >= x.created_at}
        k == Cardinality(before)
    IN SubSeq(sorted, 1, k) \o <<x>> \o SubSeq(sorted, k + 1, Len(sorted))

RECURSIVE SortedDesc(_)
\* sorted(records, key=created_at, reverse=True): stable
SortedDesc(records) ==
    IF Len(records) = 0 THEN <<>>
    ELSE InsertDesc(SortedDesc(SubSeq(records, 1, Len(records) - 1)), records[Len(records)])

\* [:5]
Recent(records) ==
    LET sorted == SortedDesc(records)
    IN SubSeq(sorted, 1, IF Len(sorted) < RecentLimit THEN Len(sorted) ELSE RecentLimit)

\* dashboard
Dashboard(cfile, ifile) ==
    LET clients == Load(cfile).records
        invoices == Load(ifile).records
    IN IF ~AllDicts(invoices) \/ ~AllDicts(clients) THEN Raised("AttributeError")
       ELSE [exc |-> "none",
             statistics |->
                [total_clients |-> Len(clients),
                 total_invoices |-> Len(invoices),
                 total_revenue |-> TotalRevenue(invoices),
                 pending_invoices |-> CountStatus(invoices, PendingStatuses),
                 paid_invoices |-> CountStatus(invoices, {Paid}),
                 draft_invoices |-> CountStatus(invoices, {Draft})],
             recent_invoices |-> Recent(invoices),
             recent_clients |-> Recent(clients)]

-----------------------------------------------------------------------------
(* Arguments the callers draw from *)

Field(v) == [has |-> TRUE, v |-> v]
NoNumber == [has |-> FALSE, v |-> 0]

MailB == <<"b", "@", "x", ".", "i", "o">>

ClientAnn ==
    [name |-> <<"A", "n", "n">>, email |-> <<"a", "@", "X", ".", "I", "O">>,
     phone |-> Some(<<"5">>), address |-> None,
     company |-> Some(<<"A", "C", "M", "E", " ", "C", "o", "r", "p">>)]

ClientBob ==
    [name |-> <<"b", "o", "b">>, email |-> MailB, phone |-> None, address |-> None,
     company |-> None]

ClientNoName == [ClientBob EXCEPT !.name = <<>>]
ClientBadEmail == [ClientBob EXCEPT !.email = <<"b", "@", "x">>]
ClientAllBad == [ClientBob EXCEPT !.name = <<>>, !.email = <<"x">>]

ClientInputs == {ClientAnn, ClientBob, ClientNoName, ClientBadEmail, ClientAllBad}

ItemA == [description |-> Field(<<"A">>), quantity |-> Field(2), unit_price |-> Field(10)]
ItemB == [description |-> Field(<<"B">>), quantity |-> Field(1), unit_price |-> Field(5)]
ItemNoQty == [description |-> Field(<<>>), quantity |-> NoNumber, unit_price |-> Field(1)]
ItemBad == [description |-> Field(<<>>), quantity |-> Field(0), unit_price |-> Field(0 - 1)]

StDraft == <<"d", "r", "a", "f", "t">>
StPaid == <<"P", "a", "i", "d">>
StSent == <<"S", "E", "N", "T">>
StOverdue == <<"o", "v", "e", "r", "d", "u", "e">>
StVoid == <<"v", "o", "i", "d">>

StatusInputs == {StDraft, StPaid, StSent, StOverdue, StVoid}

ClientIds == 1..MaxClients
InvoiceIds == 1..MaxInvoices

NoId == [some |-> FALSE, v |-> 0]
SomeId(i) == [some |-> TRUE, v |-> i]

\* the arguments of create_invoice, from the sets of its item lists and statuses
CreateArgs(lists, statuses) ==
    [client_id : ClientIds, items : lists, notes : {None}, due_date : {None},
     status : statuses]

CoreCreates == CreateArgs({<<>>, <<ItemA, ItemB>>, <<ItemA, ItemBad>>}, {StDraft, StPaid, StVoid})

CoreSearches ==
    {[query |-> None, email |-> None, company |-> None],
     [query |-> None, email |-> None, company |-> Some(<<"A", "c", "m", "e">>)]}

CoreListings ==
    [client_id : {NoId, SomeId(1)}, status : {None, Some(StSent)}]

-----------------------------------------------------------------------------
(* The operations as steps.  A step is one whole call: the handler runs to *)
(* its return before the next call begins.                                 *)

NoCall == [op |-> "none"]
NoResult == [exc |-> "none"]
NoMem == [op |-> "none", coll |-> "none", exc |-> "none", records |-> <<>>,
          next_id |-> PyInt(0)]

Callers == {"c1", "c2"}

\* the state after construction: no data directory, no file
Init ==
    /\ dirExists = FALSE
    /\ clientsFile = AbsentFile
    /\ invoicesFile = AbsentFile
    /\ clock = 0
    /\ call = NoCall
    /\ result = NoResult
    /\ issued = <<>>
    /\ mem = NoMem
    /\ pc = [p \in Callers |-> "idle"]
    /\ local = [p \in Callers |-> NoCall]
    /\ lastWriter = "none"
    /\ start = [cfile |-> clientsFile, ifile |-> invoicesFile]

otherVars == <<mem, pc, local, lastWriter, start>>

\* add_client with an input of `inputs`; the clock reads no later than `latest`
AddClientOp(inputs, latest) ==
    \E inp \in inputs : \E t1 \in clock..latest : \E t2 \in t1..latest :
        LET out == AddClient(inp, clientsFile, t1, t2)
        IN /\ out.loads => Len(Load(clientsFile).records) < MaxClients
           /\ ~out.loads => t1 = clock /\ t2 = clock
           /\ call' = [op |-> "add_client", inp |-> inp]
           /\ result' = out.resp
           /\ clientsFile' = out.cfile
           /\ dirExists' = (dirExists \/ out.loads)
           /\ clock' = t2
           /\ issued' = IF out.resp.success THEN Append(issued, out.resp.client) ELSE issued
           /\ UNCHANGED <<invoicesFile, otherVars>>

SearchClientsOp(inputs) ==
    \E a \in inputs :
        /\ call' = [op |-> "search_clients", query |-> a.query, email |-> a.email,
                    company |-> a.company]
        /\ result' = SearchClients(a.query, a.email, a.company, clientsFile)
        /\ dirExists' = TRUE
        /\ UNCHANGED <<clientsFile, invoicesFile, clock, issued, otherVars>>

GetClientOp ==
    \E id \in ClientIds :
        /\ call' = [op |-> "get_client", client_id |-> id]
        /\ result' = GetClient(id, clientsFile)
        /\ dirExists' = TRUE
        /\ UNCHANGED <<clientsFile, invoicesFile, clock, issued, otherVars>>

ListAllClientsOp ==
    /\ call' = [op |-> "list_all_clients"]
    /\ result' = ListAllClients(clientsFile)
    /\ dirExists' = TRUE
    /\ UNCHANGED <<clientsFile, invoicesFile, clock, issued, otherVars>>

\* create_invoice with arguments of `inputs`; the clock reads no later than `latest`
CreateInvoiceOp(inputs, latest) ==
    \E args \in inputs : \E t \in clock..latest :
        LET out == CreateInvoice(args, clientsFile, invoicesFile, t)
        IN /\ out.loads => Len(Load(invoicesFile).records) < MaxInvoices
           /\ ~out.loads => t = clock
           /\ call' = [op |-> "create_invoice", args |-> args]
           /\ result' = out.resp
           /\ invoicesFile' = out.ifile
           /\ dirExists' = TRUE
           /\ clock' = t
           /\ UNCHANGED <<clientsFile, issued, otherVars>>

GetInvoiceOp ==
    \E id \in InvoiceIds :
        /\ call' = [op |-> "get_invoice", invoice_id |-> id]
        /\ result' = GetInvoice(id, clientsFile, invoicesFile)
        /\ dirExists' = TRUE
        /\ UNCHANGED <<clientsFile, invoicesFile, clock, issued, otherVars>>

ListInvoicesOp(inputs) ==
    \E a \in inputs :
        /\ call' = [op |-> "list_invoices", client_id |-> a.client_id, status |-> a.status]
        /\ result' = ListInvoices(a.client_id, a.status, invoicesFile)
        /\ dirExists' = TRUE
        /\ UNCHANGED <<clientsFile, invoicesFile, clock, issued, otherVars>>

UpdateInvoiceStatusOp(statuses) ==
    \E id \in InvoiceIds : \E st \in statuses :
        LET out == UpdateInvoiceStatus(id, st, invoicesFile)
        IN /\ call' = [op |-> "update_invoice_status", invoice_id |-> id, status |-> st]
           /\ result' = out.resp
           /\ invoicesFile' = out.ifile
           /\ dirExists' = (dirExists \/ out.loads)
           /\ UNCHANGED <<clientsFile, clock, issued, otherVars>>

\* a dashboard whose loads write back the state they return
DashboardOpWritesBack ==
    /\ call' = [op |-> "dashboard"]
    /\ result' = Dashboard(clientsFile, invoicesFile)
    /\ dirExists' = TRUE
    /\ clientsFile' = Dump(Load(clientsFile))
    /\ invoicesFile' = Dump(Load(invoicesFile))
    /\ UNCHANGED <<clock, issued, otherVars>>

DashboardOp ==
    /\ call' = [op |-> "dashboard"]
    /\ result' = Dashboard(clientsFile, invoicesFile)
    /\ dirExists' = TRUE
    /\ UNCHANGED <<clientsFile, invoicesFile, clock, issued, otherVars>>

\* Every operation, one call at a time, from empty storage; the clock stands still
\* (SpecClock lets it advance)
Next ==
    \/ AddClientOp(ClientInputs, clock)
    \/ SearchClientsOp(CoreSearches)
    \/ GetClientOp
    \/ ListAllClientsOp
    \/ CreateInvoiceOp(CoreCreates, clock)
    \/ GetInvoiceOp
    \/ ListInvoicesOp(CoreListings)
    \/ UpdateInvoiceStatusOp(StatusInputs)
    \/ DashboardOp

Spec == Init /\ [][Next]_vars

RichCreates ==
    CreateArgs({<<>>, <<ItemB>>, <<ItemA, ItemB>>, <<ItemA, ItemBad>>,
                <<ItemBad, ItemNoQty>>, <<ItemNoQty, ItemBad>>},
               {StDraft, StPaid, StVoid})

\* The invoice operations over every kind of item list, with the clients they need
NextInvoices ==
    \/ AddClientOp({ClientAnn, ClientNoName}, clock)
    \/ CreateInvoiceOp(RichCreates, clock)
    \/ GetInvoiceOp
    \/ ListInvoicesOp(CoreListings)
    \/ UpdateInvoiceStatusOp({StPaid, StSent, StVoid})
    \/ DashboardOp

SpecInvoices == Init /\ [][NextInvoices]_vars

-----------------------------------------------------------------------------
(* The repository alone: load and save over stored files of any content,   *)
(* as left by an earlier run, a crash or an edit by hand.                  *)

Collections == {"clients", "invoices"}

File(c) == IF c = "clients" THEN clientsFile ELSE invoicesFile

Blank(c, shape, id) == IF c = "clients" THEN BlankClient(shape, id) ELSE BlankInvoice(shape, id)

\* the ids a stored record may carry: integers, a real, a string, none at all
StoredIds ==
    {Tok("integer", 1), Tok("integer", 3), Tok("real", 2), Tok("string", 0), Tok("absent", 0)}

\* the elements of a stored record list: mappings, and one element that is none
StoredElements(c) ==
    {Blank(c, "dict", id) : id \in StoredIds} \cup {Blank(c, "other", Tok("absent", 0))}

StoredLists(c) == UNION {[1..n -> StoredElements(c)] : n \in 0..MaxStoreRecs}

\* the values stored under next_id: none, integers, a real, a string, null, true
StoredNextIds ==
    {Tok("absent", 0), Tok("integer", 1), Tok("integer", 5), Tok("real", 2),
     Tok("string", 0), Tok("null", 0), Tok("true", 0)}

StoredFiles(c) ==
    {AbsentFile, UnparseableFile, EmptyFile,
     [AbsentFile EXCEPT !.kind = "unreadable"],
     [AbsentFile EXCEPT !.kind = "notdict"]}
    \cup {[kind |-> "dict", recs |-> [k |-> k, items |-> <<>>], next |-> n] :
            k \in {"absent", "notlist"}, n \in {Tok("absent", 0), Tok("integer", 1)}}
    \cup {[kind |-> "dict", recs |-> [k |-> "list", items |-> l], next |-> n] :
            l \in StoredLists(c), n \in StoredNextIds}

InitStore ==
    /\ dirExists \in BOOLEAN
    /\ \E c \in Collections :
          /\ clientsFile \in (IF c = "clients" THEN StoredFiles(c) ELSE {AbsentFile})
          /\ invoicesFile \in (IF c = "invoices" THEN StoredFiles(c) ELSE {AbsentFile})
    /\ clock = 0
    /\ call = NoCall
    /\ result = NoResult
    /\ issued = <<>>
    /\ mem = NoMem
    /\ pc = [p \in Callers |-> "idle"]
    /\ local = [p \in Callers |-> NoCall]
    /\ lastWriter = "none"
    /\ start = [cfile |-> clientsFile, ifile |-> invoicesFile]

\* data = load_clients() / load_invoices()
StoreLoad(c) ==
    /\ mem' = [op |-> "load", coll |-> c, exc |-> Load(File(c)).exc,
               records |-> Load(File(c)).records, next_id |-> Load(File(c)).next_id]
    /\ dirExists' = TRUE
    /\ UNCHANGED <<clientsFile, invoicesFile, clock, call, result, issued, pc, local,
                   lastWriter,
                   start>>

\* the change add_client and create_invoice make to the loaded state
StoreAppend(c) ==
    /\ mem.op = "load" /\ mem.coll = c
    /\ Len(mem.records) <= MaxStoreRecs
    /\ mem' = [AppendRecord(mem, Blank(c, "dict", mem.next_id)) EXCEPT !.op = "changed"]
    /\ UNCHANGED <<dirExists, clientsFile, invoicesFile, clock, call, result, issued, pc,
                   local, lastWriter,
                   start>>

\* save_clients(data) / save_invoices(data)
StoreSave(c) ==
    /\ mem.op \in {"load", "changed"} /\ mem.coll = c
    /\ clientsFile' = IF c = "clients" THEN Dump(mem) ELSE clientsFile
    /\ invoicesFile' = IF c = "invoices" THEN Dump(mem) ELSE invoicesFile
    /\ mem' = [mem EXCEPT !.op = "saved"]
    /\ dirExists' = TRUE
    /\ UNCHANGED <<clock, call, result, issued, pc, local, lastWriter,
                   start>>

NextStore ==
    \E c \in Collections :
        \/ StoreLoad(c)
        \/ StoreAppend(c)
        \/ StoreSave(c)

SpecStore == InitStore /\ [][NextStore]_vars

-----------------------------------------------------------------------------
(* Two callers in add_client at once.  Nothing locks the file: a call reads *)
(* it in load_clients, and writes it in save_clients in two steps, the open *)
(* that truncates it and the write of the buffered text at close.           *)

RaceInputs == {ClientAnn, ClientBob, ClientNoName}

\* a clients file as one add_client of Bob leaves it
OneClientFile == Dump(AppendRecord(DefaultState, ClientDict(ClientBob, PyInt(1), 0, 0)))

InitRace ==
    /\ dirExists = TRUE
    /\ clientsFile \in {AbsentFile, OneClientFile}
    /\ invoicesFile = AbsentFile
    /\ clock = 0
    /\ call = NoCall
    /\ result = NoResult
    /\ issued = <<>>
    /\ mem = NoMem
    /\ pc = [p \in Callers |-> "idle"]
    /\ local = [p \in Callers |-> NoCall]
    /\ lastWriter = "none"
    /\ start = [cfile |-> clientsFile, ifile |-> invoicesFile]

raceFrame == <<invoicesFile, call, result, issued, mem, start>>

\* Client(...) and data = load_clients(); `early` records that no other caller had
\* opened the file for writing yet
RaceLoad(p) ==
    /\ pc[p] = "idle"
    /\ \E inp \in RaceInputs :
          IF ClientErrors(inp) # <<>>
          THEN /\ pc' = [pc EXCEPT ![p] = "done"]
               /\ local' = [local EXCEPT ![p] =
                               [inp |-> inp, early |-> FALSE, data |-> DefaultState,
                                resp |-> Failure("validation", 0, ClientErrors(inp))]]
          ELSE /\ pc' = [pc EXCEPT ![p] = "loaded"]
               /\ local' = [local EXCEPT ![p] =
                               [inp |-> inp,
                                early |-> \A q \in Callers \ {p} : pc[q] \notin {"opened", "done"},
                                data |-> Load(clientsFile),
                                resp |-> NoResult]]
    /\ UNCHANGED <<dirExists, clientsFile, clock, lastWriter, raceFrame>>

\* client_dict with its id and timestamps, the append and the increment
RaceBuild(p) ==
    /\ pc[p] = "loaded"
    /\ \E t1 \in clock..MaxClock : \E t2 \in t1..MaxClock :
          LET client_dict == ClientDict(local[p].inp, local[p].data.next_id, t1, t2)
          IN /\ local' = [local EXCEPT ![p].data = AppendRecord(@, client_dict),
                                       ![p].resp = [exc |-> "none", success |-> TRUE,
                                                    client |-> client_dict]]
             /\ clock' = t2
    /\ pc' = [pc EXCEPT ![p] = "built"]
    /\ UNCHANGED <<dirExists, clientsFile, lastWriter, raceFrame>>

\* save_clients: open(CLIENTS_FILE, "w")
RaceOpen(p) ==
    /\ pc[p] = "built"
    /\ clientsFile' = EmptyFile
    /\ pc' = [pc EXCEPT ![p] = "opened"]
    /\ UNCHANGED <<dirExists, clock, local, lastWriter, raceFrame>>

\* a write that leaves a text another caller wrote since the open as it is
WriteOutcomesFirstWins(file, data) ==
    IF file.kind = "empty" THEN {Dump(data)} ELSE {file}

\* what the write at offset 0 leaves: the text written, or, over a text another
\* caller wrote since the open, that text's tail after it, which does not parse
WriteOutcomes(file, data) ==
    IF file.kind = "empty" THEN {Dump(data)} ELSE {Dump(data), UnparseableFile}

\* save_clients: json.dump and the close of the file; add_client returns
RaceWrite(p) ==
    /\ pc[p] = "opened"
    /\ clientsFile' \in WriteOutcomes(clientsFile, local[p].data)
    /\ pc' = [pc EXCEPT ![p] = "done"]
    /\ lastWriter' = p
    /\ UNCHANGED <<dirExists, clock, local, raceFrame>>

NextRace ==
    \E p \in Callers :
        \/ RaceLoad(p)
        \/ RaceBuild(p)
        \/ RaceOpen(p)
        \/ RaceWrite(p)

SpecRace == InitRace /\ [][NextRace]_vars

\* both calls have returned, and each loaded before the other began to save
BothLoadedFirst ==
    /\ \A p \in Callers : pc[p] = "done" /\ local[p].resp.success /\ local[p].early

\* C2: when two add_client calls interleave so that both load the clients before
\* either saves, both return success=true with the same id and no error, and the
\* file (when the two writes left a text that parses) holds what was loaded plus
\* only the record of the call that saved last, its next_id advanced once: the
\* other call's record is lost.
C2_LostUpdate ==
    BothLoadedFirst =>
        /\ local["c1"].resp.client.id = local["c2"].resp.client.id
        /\ \A p \in Callers : local[p].resp.exc = "none"
        /\ clientsFile.kind = "dict" =>
              /\ Load(clientsFile).records = local[lastWriter].data.records
              /\ Len(Load(clientsFile).records) = Len(local["c1"].data.records)
              /\ Load(clientsFile).records[Len(Load(clientsFile).records)]
                    = local[lastWriter].resp.client
              /\ Load(clientsFile).next_id
                    = PyAdd1(local[lastWriter].resp.client.id)

\* Ann's and Bob's calls both returned success with id 2, c2 saved last, and the
\* file holds the earlier client and c2's record only
C2_Witness ==
    /\ BothLoadedFirst
    /\ local["c1"].resp.client.id = PyInt(2) /\ local["c2"].resp.client.id = PyInt(2)
    /\ local["c1"].resp.client.name # local["c2"].resp.client.name
    /\ lastWriter = "c2"
    /\ clientsFile.kind = "dict"
    /\ Len(Load(clientsFile).records) = 2
    /\ Load(clientsFile).records[2] = local["c2"].resp.client
    /\ \A i \in 1..2 : Load(clientsFile).records[i] # local["c1"].resp.client

-----------------------------------------------------------------------------
(* search_clients over clients with, without and with an empty company, and *)
(* filters that are absent, empty and non-empty                             *)

\* a client whose company is the empty string
ClientCy ==
    [name |-> <<"C", "y">>, email |-> <<"c", "@", "y", ".", "i", "o">>, phone |-> None,
     address |-> None, company |-> Some(<<>>)]

RichSearches ==
    [query : {None, Some(<<>>), Some(<<"A", "N">>)},
     email : {None, Some(<<"X", ".", "i", "o">>)},
     company : {None, Some(<<>>), Some(<<"a", "c", "m", "e">>), Some(<<"I", "n", "c">>)}]

NextSearch ==
    \/ AddClientOp({ClientAnn, ClientBob, ClientCy}, clock)
    \/ SearchClientsOp(RichSearches)
    \/ ListAllClientsOp

SpecSearch == Init /\ [][NextSearch]_vars


-----------------------------------------------------------------------------
(* The operations that read the clock, with the clock advancing: each       *)
(* datetime.now() reads a time no earlier than the one read before it       *)

ClockCreates == CreateArgs({<<ItemB>>}, {StDraft})

NextClock ==
    \/ AddClientOp({ClientAnn, ClientBob, ClientNoName}, MaxClock)
    \/ CreateInvoiceOp(ClockCreates, MaxClock)
    \/ GetClientOp
    \/ ListAllClientsOp
    \/ DashboardOp

SpecClock == Init /\ [][NextClock]_vars


-----------------------------------------------------------------------------
(* add_client by one caller while another caller runs create_invoice or     *)
(* update_invoice_status.  The steps are the reads and writes of the files: *)
(* a load, the open that truncates, the write at close.                     *)

Adder == "c1"
Invoicer == "c2"

\* an invoices file as one create_invoice for Bob leaves it
OneInvoiceFile ==
    Dump(AppendRecord(DefaultState,
            InvoiceDict([client_id |-> 1, items |-> <<ItemB>>, notes |-> None,
                         due_date |-> None, status |-> StDraft],
                        ClientDict(ClientBob, PyInt(1), 0, 0), PyInt(1), 0)))

CrossCreates == CreateArgs({<<>>, <<ItemB>>}, {StDraft, StVoid})

CrossStatuses == {StPaid, StVoid}

InitCross ==
    /\ dirExists = TRUE
    /\ \E files \in {<<AbsentFile, AbsentFile>>, <<OneClientFile, AbsentFile>>,
                      <<OneClientFile, OneInvoiceFile>>} :
          clientsFile = files[1] /\ invoicesFile = files[2]
    /\ clock = 0
    /\ call = NoCall
    /\ result = NoResult
    /\ issued = <<>>
    /\ mem = NoMem
    /\ pc = [p \in Callers |-> "idle"]
    /\ local = [p \in Callers |-> NoCall]
    /\ lastWriter = "none"
    /\ start = [cfile |-> clientsFile, ifile |-> invoicesFile]

crossFrame == <<dirExists, clientsFile, call, result, issued, mem, lastWriter, start>>

\* create_invoice up to its last check: get_client_by_id reads the clients file
CrossFindClient(p) ==
    /\ pc[p] = "idle"
    /\ \E args \in CrossCreates :
          LET chk == CreateChecks(args, clientsFile)
              clients == Load(clientsFile).records
          IN IF ~chk.ok
             THEN /\ pc' = [pc EXCEPT ![p] = "done"]
                  /\ local' = [local EXCEPT ![p] =
                                  [call |-> [op |-> "create_invoice", args |-> args],
                                   data |-> DefaultState, resp |-> chk.resp]]
             ELSE /\ pc' = [pc EXCEPT ![p] = "found"]
                  /\ local' = [local EXCEPT ![p] =
                                  [call |-> [op |-> "create_invoice", args |-> args],
                                   client |-> clients[FindById(clients,
                                                               PyInt(args.client_id)).at],
                                   data |-> DefaultState, resp |-> NoResult]]
    /\ UNCHANGED <<invoicesFile, clock, crossFrame>>

\* create_invoice: data = load_invoices(), invoice_dict, the append and the increment
CrossLoadInvoices(p) ==
    /\ pc[p] = "found"
    /\ \E t \in clock..MaxClock :
          LET data == Load(invoicesFile)
              invoice_dict == InvoiceDict(local[p].call.args, local[p].client,
                                          data.next_id, t)
          IN /\ local' = [local EXCEPT ![p].data = AppendRecord(data, invoice_dict),
                                       ![p].resp = [exc |-> "none", success |-> TRUE,
                                                    invoice |-> invoice_dict]]
             /\ clock' = t
    /\ pc' = [pc EXCEPT ![p] = "built"]
    /\ UNCHANGED <<invoicesFile, crossFrame>>

\* update_invoice_status up to its save: the status check, load_invoices, the loop
CrossLoadForUpdate(p) ==
    /\ pc[p] = "idle"
    /\ \E id \in InvoiceIds : \E st \in CrossStatuses :
          LET data == Load(invoicesFile)
              f == FindById(data.records, PyInt(id))
              c == [op |-> "update_invoice_status", invoice_id |-> id, status |-> st]
          IN IF ~IsValidStatus(st) \/ f.exc # "none" \/ ~f.found
             THEN /\ pc' = [pc EXCEPT ![p] = "done"]
                  /\ local' = [local EXCEPT ![p] =
                                  [call |-> c, data |-> data,
                                   resp |-> UpdateInvoiceStatus(id, st, invoicesFile).resp]]
             ELSE /\ pc' = [pc EXCEPT ![p] = "built"]
                  /\ local' = [local EXCEPT ![p] =
                                  [call |-> c, data |-> UpdateStatusData(data, f.at, st),
                                   resp |-> [exc |-> "none", success |-> TRUE,
                                             invoice |-> UpdateStatusData(data, f.at, st)
                                                            .records[f.at]]]]
    /\ UNCHANGED <<invoicesFile, clock, crossFrame>>

\* save_invoices: open(INVOICES_FILE, "w")
CrossOpen(p) ==
    /\ pc[p] = "built"
    /\ invoicesFile' = EmptyFile
    /\ pc' = [pc EXCEPT ![p] = "opened"]
    /\ UNCHANGED <<clock, local, crossFrame>>

\* save_invoices: json.dump and the close of the file; the operation returns
CrossWrite(p) ==
    /\ pc[p] = "opened"
    /\ invoicesFile' \in WriteOutcomes(invoicesFile, local[p].data)
    /\ pc' = [pc EXCEPT ![p] = "done"]
    /\ UNCHANGED <<clock, local, crossFrame>>

NextCross ==
    \/ RaceLoad(Adder)
    \/ RaceBuild(Adder)
    \/ RaceOpen(Adder)
    \/ RaceWrite(Adder)
    \/ CrossFindClient(Invoicer)
    \/ CrossLoadInvoices(Invoicer)
    \/ CrossLoadForUpdate(Invoicer)
    \/ CrossOpen(Invoicer)
    \/ CrossWrite(Invoicer)

SpecCross == InitCross /\ [][NextCross]_vars


-----------------------------------------------------------------------------
(* The operations over files that may be lost or damaged between calls: a   *)
(* file removed, made unreadable, cut short, or replaced by other JSON      *)

\* the files for which load falls back to the default state
DamagedFiles ==
    {AbsentFile, UnparseableFile,
     [AbsentFile EXCEPT !.kind = "unreadable"],
     [AbsentFile EXCEPT !.kind = "notdict"],
     [kind |-> "dict", recs |-> [k |-> "notlist", items |-> <<>>],
      next |-> Tok("integer", 1)]}

\* something outside the server replaces a file that exists; the clients file
\* once at most
Damage ==
    /\ \E c \in Collections : \E f \in DamagedFiles :
          /\ File(c).kind = "dict"
          /\ c = "clients" => Len(issued) = Len(Load(clientsFile).records)
          /\ clientsFile' = IF c = "clients" THEN f ELSE clientsFile
          /\ invoicesFile' = IF c = "invoices" THEN f ELSE invoicesFile
    /\ call' = [op |-> "damage"]
    /\ result' = NoResult
    /\ UNCHANGED <<dirExists, clock, issued, otherVars>>

NextLost ==
    \/ AddClientOp({ClientAnn}, clock)
    \/ CreateInvoiceOp(ClockCreates, clock)
    \/ Damage
    \/ SearchClientsOp(CoreSearches)
    \/ GetClientOp
    \/ ListAllClientsOp
    \/ GetInvoiceOp
    \/ ListInvoicesOp(CoreListings)
    \/ DashboardOp

SpecLost == Init /\ [][NextLost]_vars


-----------------------------------------------------------------------------
(* Properties of the repository, under SpecStore *)

\* the file the last repository step read or wrote
MemFile == File(mem.coll)

\* the stored records as Python reads them
StoredRecords(file) == [i \in 1..Len(file.recs.items) |-> RecFromJson(file.recs.items[i])]

\* the largest number stored as an id, 0 when there is none
LargestStoredId(file) ==
    LET nums == {file.recs.items[i].id.v : i \in {j \in 1..Len(file.recs.items) :
                    /\ file.recs.items[j].shape = "dict"
                    /\ file.recs.items[j].id.j \in {"integer", "real"}}}
    IN IF nums = {} THEN 0 ELSE CHOOSE m \in nums : \A n \in nums : n <= m

\* a mapping with a record list and a next_id that is missing or no integer
CounterOnlyBad(file) ==
    file.kind = "dict" /\ file.recs.k = "list" /\ file.next.j # "integer"

\* C6: a stored mapping whose record list is a list and whose next_id is missing or
\* not an integer loads with every record kept, in order, whatever the records
\* contain, and with next_id = largest id + 1 (1 for an empty list).
C6_CounterRecovered ==
    (mem.op = "load" /\ CounterOnlyBad(MemFile)) =>
        /\ mem.records = StoredRecords(MemFile)
        /\ IsNumber(mem.next_id)
        /\ mem.next_id.v = LargestStoredId(MemFile) + 1

\* the files C7 is about: absent, unparseable, not a mapping, record list missing
\* or not a list
ResetCase(file) ==
    \/ file.kind \in {"absent", "unparseable", "empty", "notdict"}
    \/ file.kind = "dict" /\ file.recs.k # "list"

\* C7: when the stored file is absent, cannot be parsed, is not a mapping, or has a
\* missing or non-list record list, load returns the empty default state
\* (no records, next_id = 1) and raises nothing.
C7_ResetsToDefault ==
    (mem.op = "load" /\ ResetCase(MemFile)) =>
        /\ mem.exc = "none"
        /\ mem.records = <<>>
        /\ mem.next_id = PyInt(1)

\* a load of an unparseable file has returned the default state
C7_Witness ==
    /\ mem.op = "load"
    /\ MemFile.kind = "unparseable"
    /\ mem.exc = "none" /\ mem.records = <<>> /\ mem.next_id = PyInt(1)

\* C8: a load that follows a save, with no write in between, returns the records
\* (same order, same fields) and the next_id that were passed to the save.
C8_RoundTrip ==
    mem.op = "saved" =>
        /\ Load(MemFile).exc = "none"
        /\ Load(MemFile).records = mem.records
        /\ Load(MemFile).next_id = mem.next_id

\* a state with two records and a next_id that is not an int has been saved, so the
\* load after it must recompute the counter
C8_Witness ==
    /\ mem.op = "saved"
    /\ Len(mem.records) = 2
    /\ mem.next_id.t = "float"
    /\ Load(MemFile).next_id = mem.next_id

-----------------------------------------------------------------------------
(* Properties of the operations *)

\* the persisted collections, as the operations read them
Clients == Load(clientsFile).records
Invoices == Load(invoicesFile).records

ClientPresent(id) == \E i \in 1..Len(Clients) : Clients[i].id = PyInt(id)
InvoicePresent(id) == \E i \in 1..Len(Invoices) : Invoices[i].id = PyInt(id)

\* C1, ids: each id returned by add_client is greater than every id returned before
C1_Increasing ==
    \A i, j \in 1..Len(issued) : i < j => issued[i].id.v < issued[j].id.v

\* C1, persistence: get_client of a returned id returns the client as returned
C1_Persists ==
    \A i \in 1..Len(issued) :
        GetClient(issued[i].id.v, clientsFile)
            = [exc |-> "none", success |-> TRUE, client |-> issued[i]]

\* C1, freshness: a successful add_client returns an id no stored client carries
C1_Fresh ==
    (call'.op = "add_client" /\ result'.success) =>
        \A i \in 1..Len(Clients) : Clients[i].id # result'.client.id

\* C1: from empty storage, with operations one at a time, every successful
\* add_client returns an id greater than every id returned before and carried by
\* no stored client, and any later get_client of that id succeeds with the client
\* add_client returned.
C1_IdsIncreaseAndPersist ==
    [](C1_Increasing /\ C1_Persists) /\ [][C1_Fresh]_vars

\* a get_client of the first id, after a second client was added, has returned the
\* first client as add_client returned it
C1_Witness ==
    /\ Len(issued) = 2
    /\ call.op = "get_client" /\ call.client_id = issued[1].id.v
    /\ result.success /\ result.client = issued[1]

\* C3, response: create_invoice for a client_id no stored client carries fails
\* with client-not-found
C3_NotFound ==
    (call.op = "create_invoice" /\ ~ClientPresent(call.args.client_id)) =>
        result = Failure("client_not_found", call.args.client_id, <<>>)

\* C3, frame: that call leaves both collections as they were
C3_Frame ==
    (call'.op = "create_invoice" /\ ~ClientPresent(call'.args.client_id)) =>
        /\ Load(invoicesFile') = Load(invoicesFile)
        /\ Load(clientsFile') = Load(clientsFile)

\* C3: for every client_id that matches no stored client, create_invoice returns
\* success=false with the client-not-found error whatever the status and the items
\* are, and leaves the invoices, their next_id and the clients unchanged.
C3_UnknownClientRejected == []C3_NotFound /\ [][C3_Frame]_vars

\* create_invoice was called for an unknown client with an invalid status and an
\* invalid item list, and client-not-found is what it returned
C3_Witness ==
    /\ call.op = "create_invoice"
    /\ ~ClientPresent(call.args.client_id)
    /\ call.args.status = StVoid
    /\ call.args.items = <<ItemNoQty, ItemBad>>
    /\ result.error.kind = "client_not_found"

\* the statuses update_invoice_status must refuse
RefusedStatus(status) ==
    Lower(status) \notin {<<"d", "r", "a", "f", "t">>, <<"s", "e", "n", "t">>,
                          <<"p", "a", "i", "d">>, <<"o", "v", "e", "r", "d", "u", "e">>}

\* C4, response: update_invoice_status with a status that is none of the four
\* fails with the invalid-status error
C4_Invalid ==
    (call.op = "update_invoice_status" /\ RefusedStatus(call.status)) =>
        result = Failure("invalid_status", 0, <<>>)

\* C4, frame: that call leaves the invoices and their next_id as they were
C4_Frame ==
    (call'.op = "update_invoice_status" /\ RefusedStatus(call'.status)) =>
        Load(invoicesFile') = Load(invoicesFile)

\* C4: for every status that, lower-cased, is none of draft, sent, paid, overdue,
\* update_invoice_status returns success=false with the invalid-status error and
\* leaves every invoice and the invoices next_id unchanged, whether or not an
\* invoice with the given id exists.
C4_InvalidStatusRejected == []C4_Invalid /\ [][C4_Frame]_vars

\* update_invoice_status was called with an invalid status for an invoice that exists
C4_Witness ==
    /\ call.op = "update_invoice_status"
    /\ call.status = StVoid
    /\ InvoicePresent(call.invoice_id)
    /\ result.error.kind = "invalid_status"

RECURSIVE SubmittedSum(_)
\* the sum of quantity x unit_price over the items as submitted
SubmittedSum(items) ==
    IF items = <<>> THEN 0
    ELSE Head(items).quantity.v * Head(items).unit_price.v + SubmittedSum(Tail(items))

\* C5, at creation: the total returned and the total persisted are the sum over the
\* submitted items
C5_Total ==
    (call.op = "create_invoice" /\ result.success) =>
        /\ result.invoice.total = SubmittedSum(call.args.items)
        /\ \E i \in 1..Len(Invoices) :
              /\ Invoices[i].id = result.invoice.id
              /\ Invoices[i].total = SubmittedSum(call.args.items)

\* C5, afterwards: no operation changes the total of a persisted invoice
C5_TotalKept ==
    \A i \in 1..Len(Invoices) :
        \E j \in 1..Len(Load(invoicesFile').records) :
            /\ Load(invoicesFile').records[j].id = Invoices[i].id
            /\ Load(invoicesFile').records[j].total = Invoices[i].total

\* C5: for every successful create_invoice, the total returned and the total
\* persisted both equal the sum over the submitted items of quantity x unit_price,
\* and the persisted total stays the same under every later operation.
C5_TotalIsSum == []C5_Total /\ [][C5_TotalKept]_vars

\* an invoice of two items, 2 x 10 and 1 x 5, was created with total 25
C5_Witness ==
    /\ call.op = "create_invoice" /\ result.success
    /\ call.args.items = <<ItemA, ItemB>>
    /\ result.invoice.total = 25
    /\ Len(Invoices) = 2

\* C9: under operations run one at a time, every client and every invoice once
\* persisted stays in its collection with the same id and every field unchanged,
\* except that the status of an invoice may change.
C9_RecordsKept ==
    [][/\ \A i \in 1..Len(Clients) :
              \E j \in 1..Len(Load(clientsFile').records) :
                  Load(clientsFile').records[j] = Clients[i]
       /\ \A i \in 1..Len(Invoices) :
              \E j \in 1..Len(Load(invoicesFile').records) :
                  [Load(invoicesFile').records[j] EXCEPT !.status = Invoices[i].status]
                      = Invoices[i]]_vars

\* with two clients and two invoices stored, update_invoice_status has changed the
\* status of the first invoice
C9_Witness ==
    /\ Len(Clients) = 2 /\ Len(Invoices) = 2
    /\ call.op = "update_invoice_status" /\ call.invoice_id = 1 /\ result.success
    /\ Invoices[1].status # Invoices[2].status

\* the sum of the persisted totals of the invoices whose index is in `idx`
RECURSIVE TotalOver(_)
TotalOver(idx) ==
    IF idx = {} THEN 0
    ELSE LET i == CHOOSE k \in idx : TRUE
         IN Invoices[i].total + TotalOver(idx \ {i})

PaidTotal == TotalOver({i \in 1..Len(Invoices) : Invoices[i].status = <<"p", "a", "i", "d">>})

\* C10, value: the total_revenue of dashboard is the sum of the totals of the paid
\* invoices, in every state and in what dashboard returned
C10_Revenue ==
    /\ Dashboard(clientsFile, invoicesFile).statistics.total_revenue = PaidTotal
    /\ call.op = "dashboard" => result.statistics.total_revenue = PaidTotal

\* C10, change: taking an invoice out of paid lowers total_revenue by its total
C10_Lowered ==
    (/\ call'.op = "update_invoice_status" /\ result'.success
     /\ \E i \in 1..Len(Invoices) :
           /\ Invoices[i].id = PyInt(call'.invoice_id)
           /\ Invoices[i].status = Paid
     /\ result'.invoice.status # Paid) =>
        Dashboard(clientsFile', invoicesFile').statistics.total_revenue
            = Dashboard(clientsFile, invoicesFile).statistics.total_revenue
              - result'.invoice.total

\* C10: in every state the total_revenue of dashboard is the sum of the persisted
\* totals of exactly the invoices whose status is "paid"; sent, overdue and draft
\* invoices add nothing, so moving an invoice from paid to another status lowers
\* total_revenue by that invoice's total.
C10_RevenueIsPaidTotal == []C10_Revenue /\ [][C10_Lowered]_vars

\* dashboard has returned 5 with a paid invoice of 5 and a sent invoice of 25 stored
C10_Witness ==
    /\ call.op = "dashboard"
    /\ Len(Invoices) = 2
    /\ Invoices[1].status = Paid /\ Invoices[1].total = 5
    /\ Invoices[2].status = <<"s", "e", "n", "t">> /\ Invoices[2].total = 25
    /\ result.statistics.total_revenue = 5

\* `part` occurs in `whole` when letter case is ignored
SubstringNoCase(part, whole) ==
    \E k \in 0..(Len(whole) - Len(part)) : Lower(SubSeq(whole, k + 1, k + Len(part))) = Lower(part)

\* the clients a search must return, `given` telling which filters count as provided
Wanted(given(_)) ==
    {i \in 1..Len(Clients) :
        /\ given(call.query) => SubstringNoCase(call.query.s, Clients[i].name)
        /\ given(call.email) => SubstringNoCase(call.email.s, Clients[i].email)
        /\ given(call.company) =>
              /\ Clients[i].company.some /\ Clients[i].company.s # <<>>
              /\ SubstringNoCase(call.company.s, Clients[i].company.s)}

\* the clients returned are the stored clients at the indices `idx`, and count is
\* their number
Returned(idx) ==
    /\ result.exc = "none"
    /\ result.count = Len(result.clients)
    /\ \A i \in 1..Len(Clients) :
          (i \in idx) <=> (\E j \in 1..Len(result.clients) : result.clients[j] = Clients[i])
    /\ \A j \in 1..Len(result.clients) :
          \E i \in 1..Len(Clients) : result.clients[j] = Clients[i]

GivenAsArgument(o) == o.some
GivenNonEmpty(o) == o.some /\ o.s # <<>>

\* C11 as stated: search_clients returns exactly the clients that satisfy every
\* provided filter (case-insensitive substring of name, email, company), a provided
\* company filter excludes every client whose company is unset or empty, and count
\* is the number of clients returned.  A filter passed as "" is a provided filter.
C11_AsStated ==
    call.op = "search_clients" => Returned(Wanted(GivenAsArgument))

\* C11, amended: the same with a filter counting as provided only when it is a
\* non-empty string; a filter passed as "" filters nothing, so an empty company
\* filter excludes no client.
C11_SearchMatches ==
    call.op = "search_clients" => Returned(Wanted(GivenNonEmpty))

\* with Ann (company "ACME Corp") and Bob (no company) stored, a search for name
\* "AN" and company "acme" has returned Ann alone
C11_Witness ==
    /\ call.op = "search_clients"
    /\ call.query = Some(<<"A", "N">>) /\ call.company = Some(<<"a", "c", "m", "e">>)
    /\ Len(Clients) = 2
    /\ \E i \in 1..2 : ~Clients[i].company.some
    /\ result.count = 1
    /\ result.clients[1].name = <<"A", "n", "n">>

\* an item lacks one of description, quantity, unit_price
LacksField(item) == ~item.description.has \/ ~item.quantity.has \/ ~item.unit_price.has

\* an item carries a value the entity model refuses
BadValue(item) ==
    \/ item.description.v = <<>>
    \/ item.quantity.v <= 0
    \/ item.unit_price.v < 0

\* the earliest violated check of a create_invoice request, in the order client,
\* status, item presence, items in sequence; n is the 1-based position of the item
EarliestViolation(args) ==
    LET failing == {i \in 1..Len(args.items) :
                       LacksField(args.items[i]) \/ BadValue(args.items[i])}
        first == CHOOSE i \in failing : \A j \in failing : i <= j
    IN IF ~ClientPresent(args.client_id) THEN [kind |-> "client_not_found", n |-> args.client_id]
       ELSE IF RefusedStatus(args.status) THEN [kind |-> "invalid_status", n |-> 0]
       ELSE IF args.items = <<>> THEN [kind |-> "no_items", n |-> 0]
       ELSE IF failing = {} THEN [kind |-> "none", n |-> 0]
       ELSE IF LacksField(args.items[first]) THEN [kind |-> "item_missing_fields", n |-> first]
       ELSE [kind |-> "item_validation", n |-> first]

\* C12, response: the error create_invoice returns is the one of the earliest
\* violated check, and it succeeds when no check is violated
C12_Earliest ==
    call.op = "create_invoice" =>
        LET first == EarliestViolation(call.args)
        IN /\ result.exc = "none"
           /\ first.kind = "none" => result.success
           /\ first.kind # "none" =>
                 /\ ~result.success
                 /\ result.error.kind = first.kind
                 /\ result.error.n = first.n

\* C12, frame: a create_invoice that returns an error persists nothing
C12_Frame ==
    (call'.op = "create_invoice" /\ ~result'.success) =>
        /\ Load(invoicesFile') = Load(invoicesFile)
        /\ Load(clientsFile') = Load(clientsFile)

\* C12: when a create_invoice request violates several checks at once, the error
\* returned is that of the earliest violated check in the order client not found,
\* invalid status, empty items, then the items in sequence (per item the
\* missing-field check before the value validation, the item named by its 1-based
\* position); only the first failing item is reported and nothing is persisted.
C12_FirstViolationReported == []C12_Earliest /\ [][C12_Frame]_vars

\* for an existing client and a valid status, items whose first has bad values and
\* whose second lacks a field: the error is the validation of item 1
C12_Witness ==
    /\ call.op = "create_invoice"
    /\ ClientPresent(call.args.client_id)
    /\ call.args.status = StPaid
    /\ call.args.items = <<ItemBad, ItemNoQty>>
    /\ result.error.kind = "item_validation" /\ result.error.n = 1
    /\ result.error.fields = <<"description", "quantity", "unit_price">>

\* C13: every client record persisted by a successful add_client has created_at
\* equal to updated_at, both the time of creation, also when the clock advances
\* while add_client is running.
C13_StampsEqual ==
    \A i \in 1..Len(Clients) : Clients[i].created_at = Clients[i].updated_at

\* the invoice operation `c` run as one step on the files given
InvoiceCall(c, cfile, ifile, t) ==
    IF c.op = "create_invoice" THEN CreateInvoice(c.args, cfile, ifile, t)
    ELSE UpdateInvoiceStatus(c.invoice_id, c.status, ifile)

\* C14: when add_client runs concurrently with create_invoice or
\* update_invoice_status, with no locking and any interleaving of their load and
\* save steps, both operations return the results, and storage ends in the state,
\* of some serial execution of the two (the invoice operation before add_client or
\* after it).
C14_Serializable ==
    (pc[Adder] = "done" /\ pc[Invoicer] = "done") =>
        \E t1 \in 0..MaxClock : \E t2 \in t1..MaxClock : \E t \in 0..MaxClock :
            LET a == AddClient(local[Adder].inp, start.cfile, t1, t2)
                before == InvoiceCall(local[Invoicer].call, start.cfile, start.ifile, t)
                after == InvoiceCall(local[Invoicer].call, a.cfile, start.ifile, t)
            IN /\ local[Adder].resp = a.resp
               /\ clientsFile = a.cfile
               /\ \/ local[Invoicer].resp = before.resp /\ invoicesFile = before.ifile
                  \/ local[Invoicer].resp = after.resp /\ invoicesFile = after.ifile

\* C15: for every invoice present in the invoices collection, get_invoice returns
\* success=true with that invoice and raises nothing; the client part is the client
\* the invoice names when the clients collection holds one, and the absence marker
\* when it holds none (for example after the clients file was reset by load
\* recovery).
C15_InvoiceWithoutClient ==
    (call.op = "get_invoice" /\ InvoicePresent(call.invoice_id)) =>
        /\ result.exc = "none"
        /\ result.success
        /\ result.invoice.id = PyInt(call.invoice_id)
        /\ \E i \in 1..Len(Invoices) : Invoices[i] = result.invoice
        /\ ClientPresent(result.invoice.client_id) =>
              /\ Len(result.client) = 1
              /\ result.client[1].id = PyInt(result.invoice.client_id)
              /\ \E i \in 1..Len(Clients) : Clients[i] = result.client[1]
        /\ ~ClientPresent(result.invoice.client_id) => result.client = <<>>

\* get_invoice has returned an invoice whose client is gone: the clients file no
\* longer parses
C15_Witness ==
    /\ call.op = "get_invoice"
    /\ clientsFile.kind = "unparseable"
    /\ result.success
    /\ result.invoice.client_id = 1
    /\ result.client = <<>>

ReadOperations ==
    {"search_clients", "get_client", "list_all_clients", "get_invoice", "list_invoices",
     "dashboard"}

\* C20: the read operations search_clients, get_client, list_all_clients,
\* get_invoice, list_invoices and dashboard never write storage: both files, and so
\* the records and next_id of both collections, are after the call what they were
\* before it, for every argument and also when a stored file is corrupt and load
\* falls back to the defaults.
C20_ReadsWriteNothing ==
    [][call'.op \in ReadOperations =>
          /\ clientsFile' = clientsFile
          /\ invoicesFile' = invoicesFile
          /\ Load(clientsFile') = Load(clientsFile)
          /\ Load(invoicesFile') = Load(invoicesFile)]_vars

\* dashboard has answered from the defaults over a clients file that does not parse,
\* and the file is still the one that does not parse
C20_Witness ==
    /\ call.op = "dashboard"
    /\ clientsFile.kind = "unparseable"
    /\ Len(Invoices) = 2
    /\ result.statistics.total_clients = 0
    /\ result.statistics.total_invoices = 2

\* C16: a successful update_invoice_status sets the status of the invoice with the
\* given id to the lower-cased new status and changes nothing else: the other
\* fields of that invoice, every other invoice, the order of the invoices, the
\* invoices next_id and the whole clients collection stay as they were.
C16_OnlyStatusChanges ==
    [][(call'.op = "update_invoice_status" /\ result'.success) =>
          LET old == Load(invoicesFile)
              new == Load(invoicesFile')
          IN /\ Len(new.records) = Len(old.records)
             /\ new.next_id = old.next_id
             /\ \E i \in 1..Len(old.records) : old.records[i].id = PyInt(call'.invoice_id)
             /\ \A i \in 1..Len(old.records) :
                   IF old.records[i].id = PyInt(call'.invoice_id)
                   THEN /\ new.records[i]
                             = [old.records[i] EXCEPT !.status = Lower(call'.status)]
                        /\ result'.invoice = new.records[i]
                   ELSE new.records[i] = old.records[i]
             /\ clientsFile' = clientsFile]_vars

\* with two invoices stored, update_invoice_status(2, "SENT") has succeeded: invoice
\* 2 is "sent" and invoice 1 is not
C16_Witness ==
    /\ call.op = "update_invoice_status" /\ call.invoice_id = 2 /\ call.status = StSent
    /\ result.success
    /\ Len(Invoices) = 2
    /\ Invoices[2].status = <<"s", "e", "n", "t">>
    /\ Invoices[1].status # <<"s", "e", "n", "t">>
    /\ Len(Clients) = 2

\* a loaded collection of n records holds the ids 1..n in order and next_id = n + 1
Dense(data) ==
    /\ \A i \in 1..Len(data.records) : data.records[i].id = PyInt(i)
    /\ \A i, j \in 1..Len(data.records) :
          i # j => data.records[i].id # data.records[j].id
    /\ data.next_id = PyInt(Len(data.records) + 1)

\* C17, state: both collections are dense
C17_Dense == Dense(Load(clientsFile)) /\ Dense(Load(invoicesFile))

\* C17, failures: an add_client or create_invoice that fails consumes no id
C17_FailureKeepsCounter ==
    (call'.op \in {"add_client", "create_invoice"} /\ ~result'.success) =>
        /\ Load(clientsFile').next_id = Load(clientsFile).next_id
        /\ Load(invoicesFile').next_id = Load(invoicesFile).next_id

\* C17: in every state reachable from empty storage by operations run one at a
\* time, each collection that holds n records holds exactly the ids 1..n, pairwise
\* distinct, and its persisted next_id is n + 1; a failed add_client or
\* create_invoice consumes no id.
C17_IdsDense == []C17_Dense /\ [][C17_FailureKeepsCounter]_vars

\* a create_invoice has failed on its items with one client and one invoice
\* stored, and both counters still read 2
C17_Witness ==
    /\ call.op = "create_invoice" /\ ~result.success
    /\ result.error.kind = "item_validation"
    /\ Len(Clients) = 1 /\ Len(Invoices) = 1
    /\ Load(clientsFile).next_id = PyInt(2)
    /\ Load(invoicesFile).next_id = PyInt(2)

\* C18: in every state reachable from empty storage by operations run one at a
\* time, every persisted invoice has a client_id that is the id of a client in the
\* clients collection, and its client_name is that client's name.
C18_InvoicesNameTheirClient ==
    \A i \in 1..Len(Invoices) :
        \E j \in 1..Len(Clients) :
            /\ Clients[j].id = PyInt(Invoices[i].client_id)
            /\ Clients[j].name = Invoices[i].client_name

\* two invoices are stored, one for each of two clients with different names
C18_Witness ==
    /\ Len(Clients) = 2 /\ Len(Invoices) = 2
    /\ Clients[1].name # Clients[2].name
    /\ Invoices[1].client_id # Invoices[2].client_id
    /\ Invoices[1].client_name # Invoices[2].client_name

\* the three status counts of a dashboard result add up to its total_invoices
CountsAddUp(st) ==
    st.pending_invoices + st.paid_invoices + st.draft_invoices = st.total_invoices

\* C19: in every state reachable from empty storage by create_invoice and
\* update_invoice_status calls with status arguments in any letter case, the counts
\* of dashboard satisfy pending_invoices + paid_invoices + draft_invoices =
\* total_invoices: every persisted invoice is counted in exactly one of the three.
C19_CountsPartition ==
    /\ CountsAddUp(Dashboard(clientsFile, invoicesFile).statistics)
    /\ call.op = "dashboard" => CountsAddUp(result.statistics)
    /\ \A i \in 1..Len(Invoices) :
          Cardinality({k \in {"pending", "paid", "draft"} :
                          \/ k = "pending" /\ Invoices[i].status \in
                                {<<"s", "e", "n", "t">>, <<"o", "v", "e", "r", "d", "u", "e">>}
                          \/ k = "paid" /\ Invoices[i].status = <<"p", "a", "i", "d">>
                          \/ k = "draft" /\ Invoices[i].status = <<"d", "r", "a", "f", "t">>})
              = 1

\* dashboard has counted an invoice created as "Paid" and one updated to
\* "overdue": one paid, one pending, no draft, two in all
C19_Witness ==
    /\ call.op = "dashboard"
    /\ Len(Invoices) = 2
    /\ Invoices[1].status = <<"p", "a", "i", "d">>
    /\ Invoices[2].status = <<"o", "v", "e", "r", "d", "u", "e">>
    /\ result.statistics.paid_invoices = 1
    /\ result.statistics.pending_invoices = 1
    /\ result.statistics.draft_invoices = 0
    /\ result.statistics.total_invoices = 2

====
